---------------------------- MODULE Spec2Model ----------------------------
(***************************************************************************)
(* A model of the fluid compiler front end.                                *)
(*                                                                         *)
(* Part 1: the scanner, packages/fluid_lexer/src/lexer.rs and utils.rs.    *)
(* A source text is a sequence of code points, each written as a string.   *)
(* The lexer's cursor fields keep the source's names: `position` is the    *)
(* code point that current_char()/is_eof() read, `index` is the offset     *)
(* written into token positions, `line` the line counter.                  *)
(*                                                                         *)
(* Part 2: the parser, packages/fluid_parser/src/parser.rs, ast.rs and     *)
(* utils.rs, run on a token vector.  Part 3: the symbol table of the code  *)
(* generator, packages/fluid_codegen/src/symbol.rs, and the LLVM module it *)
(* fills, driven by the handlers of declaration.rs, statement.rs and       *)
(* expression.rs.  Each part                                               *)
(* has its own specification; the other parts' variables stay as they were *)
(* before construction.                                                    *)
(***************************************************************************)
EXTENDS Naturals, Integers, Sequences, FiniteSets, TLC

VARIABLES
    code,       \* Lexer.code: the source text
    position,   \* Lexer.position
    index,      \* Lexer.index
    line,       \* Lexer.line
    tokens,     \* run's local `tokens`
    errors,     \* run's local `errors`
    pc,         \* where run is: "run" (in its loop), "done", "panic"
    result,     \* what run returned: "none", "Ok" or "Err"
    parser,     \* the Parser: [tokens, index]
    ast,        \* Parser::run's local `ast`
    symbol_table, \* CodeGen.symbol_table: [scopes, current]
    open,       \* the gen_function_def/gen_block calls that have not returned
    popped,     \* the ids of the scopes pop_scope has left
    module,     \* CodeGen.module: the functions LLVMAddFunction added
    builder,    \* CodeGen.builder: the function whose entry block it is at
    last,       \* the last call of a handler of the code generator
    calls       \* the number of handler calls so far

lexer_vars == <<code, position, index, line, tokens, errors, result>>
parser_vars == <<parser, ast>>
codegen_vars == <<symbol_table, open, popped, module, builder, last, calls>>

vars == <<lexer_vars, pc, parser_vars, codegen_vars>>

---------------------------------------------------------------------------
(* Bounds of the model.                                                    *)

\* Longest source text drawn code point by code point from Alphabet.
MaxLen == 3
\* Most lexemes of Words concatenated into one source text.
MaxWords == 2
\* Most pieces of TriviaPieces concatenated into one source text.
MaxTrivia == 4
\* Tokens run may collect before the model stops following it.
MaxTokens == 3

---------------------------------------------------------------------------
(* Character classes.                                                      *)

\* is_whitespace without the tab.
is_whitespace_no_tab(char) ==
    char \in {"U+000B", "\f", "\r", " ", "U+0085",
              "U+200E", "U+200F", "U+2028", "U+2029"}

\* Code points with no TLA+ escape are written by their U+ name.
is_whitespace(char) ==
    char \in {"\t", "U+000B", "\f", "\r", " ", "U+0085",
              "U+200E", "U+200F", "U+2028", "U+2029"}

Letters ==
    {"a", "b", "c", "d", "e", "f", "g", "h", "i", "j", "k", "l", "m",
     "n", "o", "p", "q", "r", "s", "t", "u", "v", "w", "x", "y", "z",
     "A", "B", "C", "D", "E", "F", "G", "H", "I", "J", "K", "L", "M",
     "N", "O", "P", "Q", "R", "S", "T", "U", "V", "W", "X", "Y", "Z"}

Digits == {"0", "1", "2", "3", "4", "5", "6", "7", "8", "9"}

is_ascii_alphabetic(char) == char \in Letters

is_ascii_digit(char) == char \in Digits

is_valid_continuation_of_identifier(char) ==
    is_ascii_alphabetic(char) \/ is_ascii_digit(char) \/ char = "_"

is_valid_start_of_identifier(char) ==
    is_ascii_alphabetic(char) \/ char = "_"

---------------------------------------------------------------------------
(* The cursor.  A lexer value `self` is [code, position, index, line].     *)

\* code.chars().nth(position).is_none()
is_eof(self) == self.position >= Len(self.code)

\* code.chars().nth(position).unwrap(): only read where it is Some
current_char(self) == self.code[self.position + 1]

\* code.chars().nth(position + 1): Some exactly when has_next_char
has_next_char(self) == self.position + 1 < Len(self.code)

next_char(self) == self.code[self.position + 2]

\* fn advance: both counters move
advance(self) ==
    [self EXCEPT !.position = @ + 1, !.index = @ + 1]

\* advance!($self): only index moves
advance_index(self) == [self EXCEPT !.index = @ + 1]

new_token(self, kind, value, pos_start, pos_end) ==
    [kind |-> kind, value |-> value,
     start |-> pos_start, end |-> pos_end, line |-> self.line]

---------------------------------------------------------------------------
(* skip_whitespaces_and_comments.  Each helper returns                     *)
(* [panic |-> BOOLEAN, self |-> the lexer afterwards].                     *)

\* The line comment's inner loop: advance up to, not over, the next "\n".
RECURSIVE skip_line_comment(_)
skip_line_comment(self) ==
    IF is_eof(self) \/ current_char(self) = "\n"
    THEN self
    ELSE skip_line_comment(advance(self))

\* The block comment's loop.  next_char() unwraps: a "*" that is the last
\* code point of the source makes it panic.
RECURSIVE skip_block_comment(_)
skip_block_comment(self) ==
    IF is_eof(self)
    THEN [panic |-> FALSE, self |-> self]
    ELSE IF current_char(self) = "*"
    THEN IF ~has_next_char(self)
         THEN [panic |-> TRUE, self |-> self]
         ELSE IF next_char(self) = "/"
         THEN [panic |-> FALSE, self |-> advance(advance(self))]
         ELSE skip_block_comment(advance(self))
    ELSE skip_block_comment(advance(self))

RECURSIVE skip_whitespaces_and_comments(_)
skip_whitespaces_and_comments(self) ==
    IF is_eof(self)
    THEN [panic |-> FALSE, self |-> self]
    ELSE IF is_whitespace(current_char(self))
    THEN skip_whitespaces_and_comments(advance(self))
    ELSE IF current_char(self) = "\n"
    THEN skip_whitespaces_and_comments(
             [advance(self) EXCEPT !.line = @ + 1, !.index = 0])
    ELSE IF current_char(self) = "/"
    THEN LET s1 == advance(self) IN
         IF ~is_eof(s1) /\ current_char(s1) = "/"
         THEN skip_whitespaces_and_comments(skip_line_comment(s1))
         ELSE IF ~is_eof(s1) /\ current_char(s1) = "*"
         THEN LET r == skip_block_comment(advance(s1)) IN
              IF r.panic THEN r ELSE skip_whitespaces_and_comments(r.self)
         ELSE skip_whitespaces_and_comments(s1)
    ELSE [panic |-> FALSE, self |-> self]

---------------------------------------------------------------------------
(* collect_id                                                              *)

\* The match of collect_id: spelling, Keyword variant.
KeywordTable ==
    { << <<"f","u","n","c","t","i","o","n">>, "Fn" >>,
      << <<"e","x","t","e","r","n">>, "Extern" >>,
      << <<"r","e","t","u","r","n">>, "Return" >>,
      << <<"v","a","r">>, "Var" >>,
      << <<"a","s">>, "As" >>,
      << <<"u","n","s","a","f","e">>, "Unsafe" >>,
      << <<"n","u","l","l">>, "Null" >>,
      << <<"i","f">>, "If" >>,
      << <<"e","l","s","e">>, "Else" >>,
      << <<"t","r","u","e">>, "True" >>,
      << <<"f","a","l","s","e">>, "False" >>,
      << <<"f","o","r">>, "For" >>,
      << <<"l","o","o","p">>, "Loop" >> }

\* The while loop of collect_id: [self, id].
RECURSIVE collect_id_loop(_, _)
collect_id_loop(self, id) ==
    IF ~is_eof(self) /\ is_valid_continuation_of_identifier(current_char(self))
    THEN collect_id_loop(advance(self), Append(id, current_char(self)))
    ELSE [self |-> self, id |-> id]

\* id_token matching a keyword that the spelling only starts with.
id_token_prefix(self, id, start) ==
    LET hits == {kw \in KeywordTable :
                    Len(kw[1]) <= Len(id) /\ SubSeq(id, 1, Len(kw[1])) = kw[1]} IN
    IF hits # {}
    THEN new_token(self, "Keyword",
                   (CHOOSE kw \in hits : \A o \in hits : Len(o[1]) <= Len(kw[1]))[2],
                   start, self.index)
    ELSE new_token(self, "Identifier", id, start, self.index)

\* The match on the collected spelling.
id_token(self, id, start) ==
    IF \E kw \in KeywordTable : kw[1] = id
    THEN new_token(self, "Keyword",
                   (CHOOSE kw \in KeywordTable : kw[1] = id)[2],
                   start, self.index)
    ELSE new_token(self, "Identifier", id, start, self.index)

\* [some |-> BOOLEAN, token, self]; only called where ~is_eof(self).
collect_id(self) ==
    IF is_valid_start_of_identifier(current_char(self))
    THEN LET r == collect_id_loop(advance(self), <<current_char(self)>>) IN
         [some |-> TRUE, self |-> r.self,
          token |-> id_token(r.self, r.id, self.index)]
    ELSE [some |-> FALSE, self |-> self]

---------------------------------------------------------------------------
(* collect_number                                                          *)

\* collect_number_loop that takes a "." only when a digit follows it.
RECURSIVE collect_number_loop_strict(_, _, _)
collect_number_loop_strict(self, number, typee) ==
    IF ~is_eof(self) /\ is_ascii_digit(current_char(self))
    THEN LET s1 == advance(self)
             n1 == Append(number, current_char(self)) IN
         IF ~is_eof(s1) /\ current_char(s1) = "." /\ has_next_char(s1)
            /\ is_ascii_digit(next_char(s1))
         THEN collect_number_loop_strict(advance(s1), Append(n1, "."), "float")
         ELSE collect_number_loop_strict(s1, n1, typee)
    ELSE [self |-> self, number |-> number, typee |-> typee]

\* The while loop of collect_number: [self, number, typee].
RECURSIVE collect_number_loop(_, _, _)
collect_number_loop(self, number, typee) ==
    IF ~is_eof(self) /\ is_ascii_digit(current_char(self))
    THEN LET s1 == advance(self)
             n1 == Append(number, current_char(self)) IN
         IF ~is_eof(s1) /\ current_char(s1) = "."
         THEN collect_number_loop(advance(s1), Append(n1, "."), "float")
         ELSE collect_number_loop(s1, n1, typee)
    ELSE [self |-> self, number |-> number, typee |-> typee]

DigitValue(char) ==
    CASE char = "0" -> 0 [] char = "1" -> 1 [] char = "2" -> 2
      [] char = "3" -> 3 [] char = "4" -> 4 [] char = "5" -> 5
      [] char = "6" -> 6 [] char = "7" -> 7 [] char = "8" -> 8
      [] char = "9" -> 9

\* A numeric value is kept as its canonical decimal digits, so that values
\* beyond the model checker's integers stay exact.
RECURSIVE StripLeadingZeros(_)
StripLeadingZeros(ds) ==
    IF Len(ds) > 1 /\ Head(ds) = "0" THEN StripLeadingZeros(Tail(ds)) ELSE ds

RECURSIVE StripTrailingZeros(_)
StripTrailingZeros(ds) ==
    IF Len(ds) > 0 /\ ds[Len(ds)] = "0"
    THEN StripTrailingZeros(SubSeq(ds, 1, Len(ds) - 1))
    ELSE ds

\* u64::MAX, 18446744073709551615
U64MaxDigits ==
    <<"1","8","4","4","6","7","4","4","0","7",
      "3","7","0","9","5","5","1","6","1","5">>

\* a > b for digit strings of one length
RECURSIVE DigitsGreater(_, _)
DigitsGreater(a, b) ==
    IF a = <<>> THEN FALSE
    ELSE IF Head(a) # Head(b) THEN DigitValue(Head(a)) > DigitValue(Head(b))
    ELSE DigitsGreater(Tail(a), Tail(b))

\* str::parse::<u64> of a non-empty digit string: [ok, value].
parse_u64(number) ==
    LET ds == StripLeadingZeros(number) IN
    IF Len(ds) > Len(U64MaxDigits)
       \/ (Len(ds) = Len(U64MaxDigits) /\ DigitsGreater(ds, U64MaxDigits))
    THEN [ok |-> FALSE]
    ELSE [ok |-> TRUE, value |-> ds]

\* str::parse::<f64> of a string of digits and dots that starts with a
\* digit: an error when it holds more than one dot.
parse_f64(number) ==
    LET dots == {i \in 1..Len(number) : number[i] = "."} IN
    IF Cardinality(dots) # 1
    THEN [ok |-> FALSE]
    ELSE LET dot == CHOOSE i \in dots : TRUE IN
         [ok |-> TRUE,
          value |-> [int |-> StripLeadingZeros(SubSeq(number, 1, dot - 1)),
                     frac |-> StripTrailingZeros(
                                  SubSeq(number, dot + 1, Len(number)))]]

\* [some, panic, token, self]; only called where ~is_eof(self).
collect_number(self) ==
    LET r == collect_number_loop(self, <<>>, "number")
        parsed == IF r.typee = "number" THEN parse_u64(r.number)
                                        ELSE parse_f64(r.number) IN
    IF r.number = <<>>
    THEN [some |-> FALSE, panic |-> FALSE, self |-> r.self]
    ELSE IF ~parsed.ok
    THEN [some |-> FALSE, panic |-> TRUE, self |-> r.self]
    ELSE [some |-> TRUE, panic |-> FALSE, self |-> r.self,
          token |-> new_token(r.self,
                              IF r.typee = "number" THEN "Number" ELSE "Float",
                              parsed.value, self.index, r.self.index)]

---------------------------------------------------------------------------
(* Diagnostics, string and character literals.                             *)
(* A scan step returns [tag |-> "Ok" | "Err" | "Panic", self, token | err] *)

make_error(message, error_code, line_start, range_start, range_end) ==
    [message |-> message, code |-> error_code, line_start |-> line_start,
     range |-> <<range_start, range_end>>]

\* The while loop of collect_str: [self, string].
RECURSIVE collect_str_loop(_, _)
collect_str_loop(self, string) ==
    IF ~is_eof(self) /\ current_char(self) # "\""
    THEN collect_str_loop(
             IF current_char(self) = "\n"
             THEN [advance(self) EXCEPT !.line = @ + 1]
             ELSE advance(self),
             Append(string, current_char(self)))
    ELSE [self |-> self, string |-> string]

\* collect_str that takes the end of the source for the closing quote.
collect_str_unchecked(self) ==
    LET r == collect_str_loop(advance(self), <<>>)
        s1 == advance(r.self) IN
    [tag |-> "Ok", self |-> s1,
     token |-> new_token(s1, "String", r.string, self.index, s1.index)]

collect_str(self) ==
    LET r == collect_str_loop(advance(self), <<>>) IN
    IF is_eof(r.self)
    THEN [tag |-> "Err", self |-> r.self,
          err |-> make_error("unterminated string literal", "E0002",
                             self.line, self.index, r.self.index)]
    ELSE LET s1 == advance(r.self) IN
         [tag |-> "Ok", self |-> s1,
          token |-> new_token(s1, "String", r.string, self.index, s1.index)]

\* current_char() unwraps: a "'" that ends the source makes it panic.
collect_char(self) ==
    LET s1 == advance(self) IN
    IF is_eof(s1)
    THEN [tag |-> "Panic", self |-> s1]
    ELSE LET char_v == current_char(s1)
             s2 == advance(s1) IN
         IF is_eof(s2) \/ current_char(s2) # "'"
         THEN [tag |-> "Err",
               self |-> IF ~is_eof(s2) /\ current_char(s2) # "'"
                        THEN advance(s2) ELSE s2,
               err |-> make_error("unterminated character literal", "E0002",
                                  s2.line, self.index, s2.index)]
         ELSE LET s3 == advance(s2) IN
              [tag |-> "Ok", self |-> s3,
               token |-> new_token(s3, "Char", char_v, self.index, s3.index)]

throw_unexpected_char(self) ==
    [tag |-> "Err", self |-> advance(self),
     err |-> make_error("illegal character encountered", "E0001",
                        self.line, self.index, self.index + 1)]

---------------------------------------------------------------------------
(* The advance! macro and the punctuation table of get_next_token.         *)

\* advance!($self, $token)
advance_single(self, kind) ==
    [tag |-> "Ok", self |-> advance_index(self),
     token |-> new_token(self, kind, "", self.index, self.index + 1)]

\* advance!($self, [$($char => $ret),*], $default); arms is the sequence of
\* <<char, ret>> pairs, tried in order.
advance_double(self, arms, default) ==
    LET s1 == advance_index(self)
        hits == {i \in 1..Len(arms) :
                    ~is_eof(s1) /\ arms[i][1] = current_char(s1)} IN
    IF hits # {}
    THEN LET first == CHOOSE i \in hits : \A j \in hits : i <= j IN
         [tag |-> "Ok", self |-> advance_index(s1),
          token |-> new_token(s1, arms[first][2], "", s1.index, s1.index + 2)]
    ELSE [tag |-> "Ok", self |-> s1,
          token |-> new_token(s1, default, "", s1.index, s1.index + 1)]

\* The match of get_next_token on current_char.
punctuation(self) ==
    LET c == current_char(self) IN
    CASE c = "(" -> advance_single(self, "OpenParen")
      [] c = ")" -> advance_single(self, "CloseParen")
      [] c = "{" -> advance_single(self, "OpenBrace")
      [] c = "}" -> advance_single(self, "CloseBrace")
      [] c = "[" -> advance_single(self, "OpenBrac")
      [] c = "]" -> advance_single(self, "CloseBrac")
      [] c = ";" -> advance_single(self, "Semi")
      [] c = "," -> advance_single(self, "Comma")
      [] c = "+" -> advance_single(self, "Plus")
      [] c = "/" -> advance_single(self, "Slash")
      [] c = "*" -> advance_single(self, "Star")
      [] c = ":" -> advance_single(self, "Colon")
      [] c = ">" -> advance_single(self, "Greater")
      [] c = "<" -> advance_single(self, "Lesser")
      [] c = "?" -> advance_single(self, "Question")
      [] c = "-" -> advance_double(self, << <<">", "TArrow">> >>, "Minus")
      [] c = "!" -> advance_double(self, << <<"=", "BangEq">> >>, "Bang")
      [] c = "&" -> advance_double(self, << <<"&", "AmpAmp">> >>, "Amp")
      [] c = "|" -> advance_double(self, << <<"|", "PipePipe">> >>, "Pipe")
      [] c = "=" -> advance_double(self, << <<"=", "EqEq">>,
                                            <<">", "EArrow">> >>, "Eq")
      [] c = "\"" -> collect_str(self)
      [] c = "'" -> collect_char(self)
      [] OTHER -> throw_unexpected_char(self)

get_next_token(self) ==
    LET sk == skip_whitespaces_and_comments(self) IN
    IF sk.panic
    THEN [tag |-> "Panic", self |-> sk.self]
    ELSE IF is_eof(sk.self)
    THEN [tag |-> "Ok", self |-> sk.self,
          token |-> new_token(sk.self, "EOF", "", sk.self.index, sk.self.index)]
    ELSE LET id == collect_id(sk.self) IN
         IF id.some
         THEN [tag |-> "Ok", self |-> id.self, token |-> id.token]
         ELSE LET num == collect_number(sk.self) IN
              IF num.panic
              THEN [tag |-> "Panic", self |-> num.self]
              ELSE IF num.some
              THEN [tag |-> "Ok", self |-> num.self, token |-> num.token]
              ELSE punctuation(sk.self)

---------------------------------------------------------------------------
(* The source texts the model scans.                                       *)

Alphabet ==
    {"-", ">", "=", "&", "|", "!", "/", "*", " ", "\n",
     "a", "1", ".", "\"", "'", "#"}

Words ==
    { kw[1] : kw \in KeywordTable } \cup
    { <<"f","o","r","2">>, <<"f","o">>, <<"_">>, <<"x">>,
      <<"1","2">>, <<"7",".">>, <<"1",".","5">>, <<"0","0","7">>,
      <<"1",".","2",".","3">>,
      <<"1","8","4","4","6","7","4","4","0","7",
        "3","7","0","9","5","5","1","6","1","6">>,
      <<"\"","W","o","r","l","d","\"">>,
      <<"\"","W","o","r","l","d">>,
      <<"\"","W","o","r","l","d","\\","\"","\"">>,
      <<"'","a","'">>, <<"'">>,
      <<" ">>, <<"\n">>, <<"\t">>, <<";">>, <<"(">>, <<"/">>, <<"/","/">> }

TriviaPieces ==
    { <<"/","*">>, <<"*","/">>, <<"*">>, <<"/","/">>,
      <<" ">>, <<"\n">>, <<"0">> }

SeqsUpTo(S, n) == UNION { [1..k -> S] : k \in 0..n }

RECURSIVE Concat(_)
Concat(pieces) ==
    IF pieces = <<>> THEN <<>> ELSE Head(pieces) \o Concat(Tail(pieces))

\* function add(a: number, b: number) -> number { return a + b; }
AddProgram ==
    <<"f","u","n","c","t","i","o","n"," ","a","d","d","(","a",":"," ","n",
      "u","m","b","e","r",","," ","b",":"," ","n","u","m","b","e","r",")",
      " ","-",">"," ","n","u","m","b","e","r"," ","{"," ","r","e","t","u",
      "r","n"," ","a"," ","+"," ","b",";"," ","}">>

Sources ==
    SeqsUpTo(Alphabet, MaxLen)
    \cup { Concat(ws) : ws \in SeqsUpTo(Words, MaxWords) }
    \cup { Concat(ps) : ps \in SeqsUpTo(TriviaPieces, MaxTrivia) }
    \cup { AddProgram }

---------------------------------------------------------------------------
(* Lexer::new and Lexer::run.                                              *)

Lexer == [code |-> code, position |-> position, index |-> index, line |-> line]

Init ==
    /\ code \in Sources
    /\ position = 0
    /\ index = 0
    /\ line = 1
    /\ tokens = <<>>
    /\ errors = <<>>
    /\ pc = "run"
    /\ result = "none"
    /\ parser = <<>>
    /\ ast = <<>>
    /\ symbol_table = <<>>
    /\ open = <<>>
    /\ popped = {}
    /\ module = <<>>
    /\ builder = 0
    /\ last = <<>>
    /\ calls = 0

\* self after a call that left it as `next`
SetLexer(next) ==
    /\ position' = next.position
    /\ index' = next.index
    /\ line' = next.line
    /\ UNCHANGED code

\* Ok(token), token.kind != EOF: push and loop.
run_token ==
    /\ pc = "run"
    /\ Len(tokens) < MaxTokens
    /\ LET r == get_next_token(Lexer) IN
        /\ r.tag = "Ok"
        /\ r.token.kind # "EOF"
        /\ tokens' = Append(tokens, r.token)
        /\ SetLexer(r.self)
    /\ UNCHANGED <<errors, pc, result, parser_vars, codegen_vars>>

\* run_eof without the break: the loop goes on after EOF.
run_eof_no_break ==
    /\ pc = "run"
    /\ Len(tokens) <= MaxTokens
    /\ LET r == get_next_token(Lexer) IN
        /\ r.tag = "Ok"
        /\ r.token.kind = "EOF"
        /\ tokens' = Append(tokens, r.token)
        /\ SetLexer(r.self)
    /\ UNCHANGED <<errors, pc, result, parser_vars, codegen_vars>>

\* Ok(token), token.kind == EOF: push, break, and return.
run_eof ==
    /\ pc = "run"
    /\ LET r == get_next_token(Lexer) IN
        /\ r.tag = "Ok"
        /\ r.token.kind = "EOF"
        /\ tokens' = Append(tokens, r.token)
        /\ SetLexer(r.self)
    /\ pc' = "done"
    /\ result' = IF errors = <<>> THEN "Ok" ELSE "Err"
    /\ UNCHANGED <<errors, parser_vars, codegen_vars>>

\* Err(err): push the diagnostic, advance, loop.
run_error ==
    /\ pc = "run"
    /\ LET r == get_next_token(Lexer) IN
        /\ r.tag = "Err"
        /\ errors' = Append(errors, r.err)
        /\ SetLexer(advance(r.self))
    /\ UNCHANGED <<tokens, pc, result, parser_vars, codegen_vars>>

\* An unwrap inside get_next_token failed: the thread panics.
run_panic ==
    /\ pc = "run"
    /\ get_next_token(Lexer).tag = "Panic"
    /\ pc' = "panic"
    /\ UNCHANGED <<lexer_vars, parser_vars, codegen_vars>>

Next == run_token \/ run_eof \/ run_error \/ run_panic

Spec == Init /\ [][Next]_vars

\* Lexer::run as a function of the lexer: what its loop collects from
\* `self` on, following it for at most n more tokens.
\* [end |-> "done" | "panic" | "cut", tokens, errors].
RECURSIVE run_loop(_, _, _, _)
run_loop(self, toks, errs, n) ==
    LET r == get_next_token(self) IN
    IF r.tag = "Panic"
    THEN [end |-> "panic", tokens |-> toks, errors |-> errs]
    ELSE IF r.tag = "Err"
    THEN run_loop(advance(r.self), toks, Append(errs, r.err), n)
    ELSE IF r.token.kind = "EOF"
    THEN [end |-> "done", tokens |-> Append(toks, r.token), errors |-> errs]
    ELSE IF n = 0
    THEN [end |-> "cut", tokens |-> toks, errors |-> errs]
    ELSE run_loop(r.self, Append(toks, r.token), errs, n - 1)

\* Lexer::new(source, _).run()
run(source) ==
    run_loop([code |-> source, position |-> 0, index |-> 0, line |-> 1],
             <<>>, <<>>, MaxTokens)

---------------------------------------------------------------------------
(* Properties of the scanner.                                              *)

\* Where the next call of get_next_token starts to scan: the lexer after
\* its skip_whitespaces_and_comments.
ScanStart == skip_whitespaces_and_comments(Lexer)

\* The next call of get_next_token finds the code point c to scan.
ScansAt(c) ==
    /\ pc = "run"
    /\ ~ScanStart.panic
    /\ ~is_eof(ScanStart.self)
    /\ current_char(ScanStart.self) = c

\* The step pushed exactly one token.
PushedOne == Len(tokens') = Len(tokens) + 1 /\ SubSeq(tokens', 1, Len(tokens)) = tokens

LastToken(toks) == toks[Len(toks)]

\* The code point after 0-based offset p of the source, "" at its end.
CharAfter(p) == IF p + 1 < Len(code) THEN code[p + 2] ELSE ""

C2_EveryCallAdvances ==
    [][pc = "run" /\ pc' # "panic" => pc' = "done" \/ position' > position]_vars

\* The token kind the claim C3 gives for c followed by following.
C3_Expected(c, following) ==
    CASE c = "-" -> IF following = ">" THEN "TArrow" ELSE "Minus"
      [] c = "=" -> IF following = "=" THEN "EqEq"
                    ELSE IF following = ">" THEN "EArrow" ELSE "Eq"
      [] c = "&" -> IF following = "&" THEN "AmpAmp" ELSE "Amp"
      [] c = "|" -> IF following = "|" THEN "PipePipe" ELSE "Pipe"
      [] c = "!" -> IF following = "=" THEN "BangEq" ELSE "Bang"

\* C3: scanning at one of - = & | !, the token pushed is decided by the
\* code point that follows it: the two-character operator when the pair
\* spells one, the single-character token otherwise.
C3_LookaheadOnFollowing ==
    [][\A c \in {"-", "=", "&", "|", "!"} :
          ScansAt(c) =>
              /\ PushedOne
              /\ LastToken(tokens').kind =
                     C3_Expected(c, CharAfter(ScanStart.self.position))]_vars

\* C4: with the read position at a "/" that opens no comment, the call of
\* get_next_token pushes a Slash token.
C4_SlashIsAToken ==
    [][pc = "run" /\ ~is_eof(Lexer) /\ current_char(Lexer) = "/"
         /\ CharAfter(position) \notin {"/", "*"}
       => PushedOne /\ LastToken(tokens').kind = "Slash"]_vars

\* The maximal identifier run of the source from 0-based offset p.
RECURSIVE C5_Run(_)
C5_Run(p) ==
    IF p < Len(code) /\ (code[p + 1] \in Letters \cup Digits \cup {"_"})
    THEN <<code[p + 1]>> \o C5_Run(p + 1)
    ELSE <<>>

\* The keyword a spelling names, "" when it names none.
C5_Keyword(spelling) ==
    CASE spelling = <<"f","u","n","c","t","i","o","n">> -> "Fn"
      [] spelling = <<"e","x","t","e","r","n">> -> "Extern"
      [] spelling = <<"v","a","r">> -> "Var"
      [] spelling = <<"u","n","s","a","f","e">> -> "Unsafe"
      [] spelling = <<"r","e","t","u","r","n">> -> "Return"
      [] spelling = <<"a","s">> -> "As"
      [] spelling = <<"i","f">> -> "If"
      [] spelling = <<"e","l","s","e">> -> "Else"
      [] spelling = <<"t","r","u","e">> -> "True"
      [] spelling = <<"f","a","l","s","e">> -> "False"
      [] spelling = <<"f","o","r">> -> "For"
      [] spelling = <<"l","o","o","p">> -> "Loop"
      [] spelling = <<"n","u","l","l">> -> "Null"
      [] OTHER -> ""

\* C5: scanning at a letter or "_", the token pushed is the Keyword whose
\* spelling is the whole maximal identifier run, or else one Identifier
\* carrying the whole run; the read position ends right after the run.
C5_KeywordOrIdentifier ==
    [][\A c \in Letters \cup {"_"} :
          ScansAt(c) =>
              LET start == ScanStart.self.position
                  spelling == C5_Run(start)
                  tok == LastToken(tokens') IN
              /\ PushedOne
              /\ position' = start + Len(spelling)
              /\ IF C5_Keyword(spelling) # ""
                 THEN tok.kind = "Keyword" /\ tok.value = C5_Keyword(spelling)
                 ELSE tok.kind = "Identifier" /\ tok.value = spelling]_vars

\* C5 witness: the source for2 was scanned to Identifier(for2), EOF.
C5_Witness ==
    /\ pc = "done"
    /\ code = <<"f","o","r","2">>
    /\ Len(tokens) = 2
    /\ tokens[1].kind = "Identifier"
    /\ tokens[1].value = <<"f","o","r","2">>

\* The 0-based offsets after p of the double quotes of the source.
C6_Quotes(p) == {q \in (p + 1)..(Len(code) - 1) : code[q + 1] = "\""}

\* The step pushed exactly one diagnostic, with this message.
PushedError(message) ==
    /\ Len(errors') = Len(errors) + 1
    /\ SubSeq(errors', 1, Len(errors)) = errors
    /\ errors'[Len(errors')].message = message

C7_Unescaped(p) ==
    {q \in C6_Quotes(p) : ~(q > p + 1 /\ code[q] = "\\")}

\* C7: scanning at a double quote, the literal ends at the next double
\* quote that no backslash escapes: the String token pushed extends to it
\* and scanning goes on right after it.
C7_EscapedQuote ==
    [][ScansAt("\"") /\ C7_Unescaped(ScanStart.self.position) # {} =>
          LET p == ScanStart.self.position
              q == CHOOSE q \in C7_Unescaped(p) :
                       \A o \in C7_Unescaped(p) : q <= o IN
          /\ PushedOne
          /\ LastToken(tokens').kind = "String"
          /\ position' = q + 1]_vars

\* The maximal run of digits of the source from 0-based offset p.
RECURSIVE C8_Digits(_)
C8_Digits(p) ==
    IF p < Len(code) /\ code[p + 1] \in Digits
    THEN <<code[p + 1]>> \o C8_Digits(p + 1)
    ELSE <<>>

C8_FitsU64(int) ==
    LET ds == StripLeadingZeros(int) IN
    \/ Len(ds) < Len(U64MaxDigits)
    \/ Len(ds) = Len(U64MaxDigits) /\ ~DigitsGreater(ds, U64MaxDigits)

C9_Fillers ==
    { <<" ">>, <<"\t">>, <<"\n">>, <<"/","/","c","\n">> }

\* source with filler inserted before its 0-based offset p
C9_Insert(source, p, filler) ==
    SubSeq(source, 1, p) \o filler \o SubSeq(source, p + 1, Len(source))

\* Two runs collect the same token kinds (with their payloads) and the
\* same diagnostics, and end the same way; positions may differ.
C9_SameKinds(a, b) ==
    /\ a.end = b.end
    /\ Len(a.tokens) = Len(b.tokens)
    /\ \A i \in 1..Len(a.tokens) :
          /\ a.tokens[i].kind = b.tokens[i].kind
          /\ a.tokens[i].value = b.tokens[i].value
    /\ Len(a.errors) = Len(b.errors)
    /\ \A i \in 1..Len(a.errors) : a.errors[i].message = b.errors[i].message

\* C9: wherever run stands between two calls of get_next_token, that is
\* between two tokens of the source, inserting white space or a line
\* comment there gives a source on which run yields the same token kinds.
C9_WhitespaceInsensitive ==
    pc = "run" /\ position <= Len(code) =>
        LET original == run(code) IN
        \A filler \in C9_Fillers :
            C9_SameKinds(original, run(C9_Insert(code, position, filler)))

\* C9 witness: run stands between the tokens 12 and x of the source 12x.
C9_Witness ==
    /\ pc = "run"
    /\ code = <<"1","2","x">>
    /\ position = 2
    /\ Len(tokens) = 1
    /\ tokens[1].kind = "Number"

\* The source from 0-based offset p on is white space, newlines, line
\* comments and block comments; depth counts the block comments open at p,
\* a block comment may hold block comments.
RECURSIVE C10_Trivia(_, _)
C10_Trivia(p, depth) ==
    IF p >= Len(code) THEN depth = 0
    ELSE LET c == code[p + 1]
             two == <<c, CharAfter(p)>> IN
         IF depth > 0
         THEN IF two = <<"/", "*">> THEN C10_Trivia(p + 2, depth + 1)
              ELSE IF two = <<"*", "/">> THEN C10_Trivia(p + 2, depth - 1)
              ELSE C10_Trivia(p + 1, depth)
         ELSE IF is_whitespace(c) \/ c = "\n" THEN C10_Trivia(p + 1, 0)
         ELSE IF two = <<"/", "*">> THEN C10_Trivia(p + 2, 1)
         ELSE IF two = <<"/", "/">>
         THEN LET ends == {q \in p..(Len(code) - 1) : code[q + 1] = "\n"} IN
              IF ends = {} THEN TRUE
              ELSE C10_Trivia((CHOOSE q \in ends : \A o \in ends : q <= o) + 1, 0)
         ELSE FALSE

\* C10: a source of white space and comments only lexes without panic and
\* without diagnostic to the single token EOF.
C10_TriviaOnly ==
    C10_Trivia(0, 0) =>
        /\ pc # "panic"
        /\ errors = <<>>
        /\ \A i \in 1..Len(tokens) : tokens[i].kind = "EOF"

---------------------------------------------------------------------------
(* Recovery after a lexical error, character literals, and `#`.           *)

\* The code points of the alphabet that start no token, comment or blank.
C11_IllegalChars == {"#", "."}

\* C11: when the scanner finds an illegal character at offset i, run pushes
\* exactly one "illegal character" diagnostic, stays in its loop, and the
\* next call scans from offset i + 1.
C11_SkipsOneCodePoint ==
    [][\A c \in C11_IllegalChars :
         ScansAt(c) =>
            /\ PushedError("illegal character encountered")
            /\ pc' = "run"
            /\ position' = ScanStart.self.position + 1]_vars

\* C12: scanning at a `'`, the shape ' c ' pushes exactly one Char token
\* holding c; every other shape, a `'` that ends the source included,
\* pushes exactly one "unterminated character literal" diagnostic and run
\* stays in its loop.
C12_CharLiteral ==
    [][ScansAt("'") =>
         LET p == ScanStart.self.position IN
         IF p + 2 < Len(code) /\ code[p + 3] = "'"
         THEN /\ PushedOne
              /\ LastToken(tokens').kind = "Char"
              /\ LastToken(tokens').value = code[p + 2]
              /\ errors' = errors
         ELSE /\ PushedError("unterminated character literal")
              /\ tokens' = tokens
              /\ pc' = "run"]_vars

\* The source is a `#!` line at its very first character: `#!` followed
\* by letters and blanks only.
C13_ShebangLine ==
    /\ Len(code) >= 2
    /\ code[1] = "#"
    /\ code[2] = "!"
    /\ \A i \in 3..Len(code) : code[i] \in {"a", " "}

\* C13: a source that is one `#!` line at its first character is skipped
\* like a comment: run collects no diagnostic, and when it returns the
\* tokens are [EOF].
C13_ShebangSkipped ==
    C13_ShebangLine =>
        /\ errors = <<>>
        /\ pc # "panic"
        /\ pc = "done" => (result = "Ok" /\ Len(tokens) = 1 /\ tokens[1].kind = "EOF")

---------------------------------------------------------------------------
(* Token positions, panics of run, and the `add` program.                  *)

\* The bytes of a code point in UTF-8.
C27_Utf8Len(char) ==
    IF char = "U+0085" THEN 2
    ELSE IF char \in {"U+200E", "U+200F", "U+2028", "U+2029"} THEN 3
    ELSE 1

\* The byte offset of the code point after the first p code points.
RECURSIVE C27_ByteOffset(_)
C27_ByteOffset(p) ==
    IF p = 0 THEN 0 ELSE C27_ByteOffset(p - 1) + C27_Utf8Len(code[p])

\* The newline characters among the first p code points.
C27_Newlines(p) == Cardinality({i \in 1..p : code[i] = "\n"})

\* Where the lexeme of token t ends, in code points, when it starts at
\* `from` and the scan of a literal or a word stopped at `to`.
C27_LexemeEnd(t, from, to) ==
    IF t.kind \in {"TArrow", "BangEq", "AmpAmp", "PipePipe", "EqEq", "EArrow"}
    THEN from + 2
    ELSE IF t.kind \in {"Identifier", "Keyword", "Number", "Float",
                        "String", "Char"}
    THEN to
    ELSE IF t.kind = "EOF" THEN from
    ELSE from + 1

\* C27: the token a call pushes has as start the byte offset of the first
\* character of its lexeme in the source, as end the byte offset just past
\* its last character, and as line 1 + the number of newline characters
\* before it.
C27_TokenPositions ==
    [][(pc = "run" /\ PushedOne) =>
          LET t == LastToken(tokens')
              from == ScanStart.self.position IN
          /\ t.start = C27_ByteOffset(from)
          /\ t.end = C27_ByteOffset(C27_LexemeEnd(t, from, position'))
          /\ t.line = 1 + C27_Newlines(from)]_vars

\* C29: run never aborts: whatever the source, it does not panic.
C29_RunNeverAborts == pc # "panic"

\* The tokens of AddProgram: kind, value, and the offset just past the
\* lexeme.
C26_Tokens ==
    << <<"Keyword", "Fn", 8>>, <<"Identifier", <<"a","d","d">>, 12>>,
       <<"OpenParen", "", 13>>, <<"Identifier", <<"a">>, 14>>,
       <<"Colon", "", 15>>,
       <<"Identifier", <<"n","u","m","b","e","r">>, 22>>,
       <<"Comma", "", 23>>, <<"Identifier", <<"b">>, 25>>,
       <<"Colon", "", 26>>,
       <<"Identifier", <<"n","u","m","b","e","r">>, 33>>,
       <<"CloseParen", "", 34>>, <<"TArrow", "", 37>>,
       <<"Identifier", <<"n","u","m","b","e","r">>, 44>>,
       <<"OpenBrace", "", 46>>, <<"Keyword", "Return", 53>>,
       <<"Identifier", <<"a">>, 55>>, <<"Plus", "", 57>>,
       <<"Identifier", <<"b">>, 59>>, <<"Semi", "", 60>>,
       <<"CloseBrace", "", 62>>, <<"EOF", "", 62>> >>

\* C26, the scanner's part: AddProgram scans without diagnostics to its
\* tokens: what run has collected is always the first tokens of the
\* program, the scanner stands right after the lexeme of the last one, and
\* run returns Ok with all of them.
C26_AddScans ==
    code = AddProgram =>
        /\ errors = <<>>
        /\ pc # "panic"
        /\ Len(tokens) <= Len(C26_Tokens)
        /\ \A i \in 1..Len(tokens) :
              /\ tokens[i].kind = C26_Tokens[i][1]
              /\ tokens[i].value = C26_Tokens[i][2]
        /\ tokens # <<>> => position = C26_Tokens[Len(tokens)][3]
        /\ pc = "done" => (result = "Ok" /\ Len(tokens) = Len(C26_Tokens))

---------------------------------------------------------------------------
(* Part 2: the parser.  A token is its TokenType, [kind, value]: value is  *)
(* the payload of Keyword, Identifier, Number, Float, String and Char and  *)
(* "" otherwise.  `self` is the Parser, [tokens, index].  A parse function *)
(* returns [tag |-> "Ok", self, node] or, where the code panics,           *)
(* [tag |-> "Panic", self].  A node of the tree is a tuple whose first     *)
(* element names the variant of ast.rs.                                    *)

Tok(kind, value) == [kind |-> kind, value |-> value]
Punct(kind) == Tok(kind, "")
Kw(keyword) == Tok("Keyword", keyword)
Ident(name) == Tok("Identifier", name)

Ok(self, node) == [tag |-> "Ok", self |-> self, node |-> node]
Panic(self) == [tag |-> "Panic", self |-> self]

\* Parser::new
Parser_new(toks) == [tokens |-> toks, index |-> 0]

\* self.tokens[self.index] is inside the vector; outside it peek panics.
in_bounds(self) == self.index < Len(self.tokens)

\* peek, where in_bounds(self)
peek(self) == self.tokens[self.index + 1]

\* advance!($self)
advance_token(self) == [self EXCEPT !.index = @ + 1]

\* advance!($self => $tok): the payload of a token of this kind; todo!()
\* on any other token.
advance_payload(self, kind) ==
    IF ~in_bounds(self) THEN Panic(self)
    ELSE IF peek(self).kind = kind
    THEN Ok(advance_token(self), peek(self).value)
    ELSE Panic(advance_token(self))

expect(self, token) ==
    IF ~in_bounds(self) THEN Panic(self)
    ELSE IF peek(self) = token
    THEN Ok(advance_token(self), <<>>)
    ELSE Panic(self)

\* The constructors of ast.rs.
VarRef(name) == <<"VarRef", name>>
VarAssign(name, value) == <<"VarAssign", name, value>>
FunctionCall(name, params) == <<"FunctionCall", name, params>>
BinaryOp(lhs, op, rhs) == <<"BinaryOp", lhs, op, rhs>>
Literal(kind, value) == <<"Literal", kind, value>>
Unary(op, rhs) == <<"Unary", op, rhs>>
Paren(inner) == <<"Paren", inner>>
None == <<"None">>
Some(node) == <<"Some", node>>
Expression(expression) == <<"Expression", expression>>
Return(expression) == <<"Return", expression>>
If(condition, body, elif) == <<"If", condition, body, elif>>
Block(body) == <<"Block", body>>
VarDef(name, typee, value) == <<"VarDef", name, typee, value>>
Arg(name, typee) == <<"Arg", name, typee>>
Prototype(name, args, return_type) == <<"Prototype", name, args, return_type>>
Function(prototype, body) == <<"Declaration", <<"Function", prototype, body>> >>
Extern(externs) == <<"Declaration", <<"Extern", externs>> >>

\* The code after a call that may panic: `next` goes on with the call's
\* result `first` when that is Ok, and a panic is passed up.
Then(first, next(_)) ==
    CHOOSE out \in { IF r.tag = "Panic" THEN r ELSE next(r) : r \in {first} } : TRUE

RECURSIVE parse_expression(_)
RECURSIVE parse_statement(_)
RECURSIVE parse_unary(_)

\* parse_tuple_type is todo!(), and an identifier that names no type is
\* unimplemented!().
parse_type(self) ==
    IF ~in_bounds(self) THEN Panic(self)
    ELSE IF peek(self).kind = "Identifier"
    THEN CASE peek(self).value = "void" -> Ok(advance_token(self), "Void")
           [] peek(self).value = "number" -> Ok(advance_token(self), "Number")
           [] peek(self).value = "float" -> Ok(advance_token(self), "Float")
           [] peek(self).value = "string" -> Ok(advance_token(self), "String")
           [] OTHER -> Panic(self)
    ELSE Panic(self)

\* `if *self.peek() != CloseParen { self.expect(Comma) }`
expect_comma(self) ==
    IF ~in_bounds(self) THEN Panic(self)
    ELSE IF peek(self) # Punct("CloseParen")
    THEN expect(self, Punct("Comma"))
    ELSE Ok(self, <<>>)

\* The while loop of parse_proto: [tag, self, node |-> args].
RECURSIVE parse_proto_args(_, _)
parse_proto_args(self, args) ==
    IF ~in_bounds(self) THEN Panic(self)
    ELSE IF peek(self) = Punct("CloseParen") THEN Ok(self, args)
    ELSE Then(advance_payload(self, "Identifier"), LAMBDA arg_name :
         Then(expect(arg_name.self, Punct("Colon")), LAMBDA colon :
         Then(parse_type(colon.self), LAMBDA arg_type :
         Then(expect_comma(arg_type.self), LAMBDA comma :
         parse_proto_args(comma.self,
                          Append(args, Arg(arg_name.node, arg_type.node)))))))

parse_proto(self) ==
    Then(expect(self, Kw("Fn")), LAMBDA fn :
    Then(advance_payload(fn.self, "Identifier"), LAMBDA name :
    Then(expect(name.self, Punct("OpenParen")), LAMBDA open_paren :
    Then(parse_proto_args(open_paren.self, <<>>), LAMBDA args :
    Then(expect(args.self, Punct("CloseParen")), LAMBDA close_paren :
    IF ~in_bounds(close_paren.self) THEN Panic(close_paren.self)
    ELSE IF peek(close_paren.self) = Punct("TArrow")
    THEN Then(expect(close_paren.self, Punct("TArrow")), LAMBDA arrow :
         Then(parse_type(arrow.self), LAMBDA return_type :
         Ok(return_type.self,
            Prototype(name.node, args.node, return_type.node))))
    ELSE Ok(close_paren.self, Prototype(name.node, args.node, "Void")))))))

\* The while loop of parse_id: [tag, self, node |-> params].
RECURSIVE parse_id_params(_, _)
parse_id_params(self, params) ==
    IF ~in_bounds(self) THEN Panic(self)
    ELSE IF peek(self) = Punct("CloseParen") THEN Ok(self, params)
    ELSE Then(parse_expression(self), LAMBDA param :
         Then(expect_comma(param.self), LAMBDA comma :
         parse_id_params(comma.self, Append(params, param.node))))

parse_id(self) ==
    Then(advance_payload(self, "Identifier"), LAMBDA id :
    IF ~in_bounds(id.self) THEN Panic(id.self)
    ELSE IF peek(id.self) = Punct("OpenParen")
    THEN Then(expect(id.self, Punct("OpenParen")), LAMBDA open_paren :
         Then(parse_id_params(open_paren.self, <<>>), LAMBDA params :
         Then(expect(params.self, Punct("CloseParen")), LAMBDA close_paren :
         Ok(close_paren.self, FunctionCall(id.node, params.node)))))
    ELSE Ok(id.self, VarRef(id.node)))

\* The OpenParen arm advances over whatever token follows the inner
\* expression.
parse_primary(self) ==
    IF ~in_bounds(self) THEN Panic(self)
    ELSE LET token == peek(self) IN
    CASE token = Kw("True") -> Ok(advance_token(self), Literal("Bool", "true"))
      [] token = Kw("False") -> Ok(advance_token(self), Literal("Bool", "false"))
      [] token = Kw("Null") -> Ok(advance_token(self), Literal("Null", ""))
      [] token.kind \in {"Number", "Float", "String", "Char"} ->
            Ok(advance_token(self), Literal(token.kind, token.value))
      [] token.kind = "Identifier" -> parse_id(self)
      [] token = Punct("OpenParen") ->
            Then(parse_expression(advance_token(self)), LAMBDA prime :
            Ok(advance_token(prime.self), Paren(prime.node)))
      [] OTHER -> Panic(self)

parse_unary(self) ==
    IF ~in_bounds(self) THEN Panic(self)
    ELSE IF peek(self) = Punct("Minus")
    THEN Then(parse_unary(advance_token(self)), LAMBDA right :
         Ok(right.self, Unary("Neg", right.node)))
    ELSE IF peek(self) = Punct("Bang")
    THEN Then(parse_unary(advance_token(self)), LAMBDA right :
         Ok(right.self, Unary("Not", right.node)))
    ELSE parse_primary(self)

\* The shape shared by parse_or ... parse_factor: `node` is the result of
\* the left operand; when the token after it is an operator of `arms`
\* (token kind, BinaryOp) the token is consumed, operand parses the right
\* operand and one BinaryOp is built; otherwise node is returned.
match_binary(node, arms, operand(_)) ==
    Then(node, LAMBDA lhs :
    IF ~in_bounds(lhs.self) THEN Panic(lhs.self)
    ELSE IF \E arm \in arms : peek(lhs.self) = Punct(arm[1])
    THEN Then(operand(advance_token(lhs.self)), LAMBDA rhs :
         Ok(rhs.self,
            BinaryOp(lhs.node,
                     (CHOOSE arm \in arms : peek(lhs.self) = Punct(arm[1]))[2],
                     rhs.node)))
    ELSE lhs)

parse_factor(self) ==
    match_binary(parse_unary(self),
                 {<<"Star", "Mul">>, <<"Slash", "Div">>}, parse_unary)

\* parse_term whose right operand is a unary expression, not a factor.
parse_term_unary_rhs(self) ==
    match_binary(parse_factor(self),
                 {<<"Plus", "Add">>, <<"Minus", "Subtract">>}, parse_unary)

\* parse_term that goes on folding while a `+` or `-` follows.
RECURSIVE parse_term_fold(_)
parse_term_fold(lhs) ==
    IF ~in_bounds(lhs.self) THEN Panic(lhs.self)
    ELSE IF peek(lhs.self) \in {Punct("Plus"), Punct("Minus")}
    THEN Then(parse_factor(advance_token(lhs.self)), LAMBDA rhs :
         parse_term_fold(
             Ok(rhs.self,
                BinaryOp(lhs.node,
                         IF peek(lhs.self) = Punct("Plus")
                         THEN "Add" ELSE "Subtract",
                         rhs.node))))
    ELSE lhs
parse_term_loop(self) ==
    Then(parse_factor(self), LAMBDA lhs : parse_term_fold(lhs))

parse_term(self) ==
    match_binary(parse_factor(self),
                 {<<"Plus", "Add">>, <<"Minus", "Subtract">>}, parse_factor)

parse_comparison(self) ==
    match_binary(parse_term(self),
                 {<<"Greater", "Greater">>, <<"Lesser", "Lesser">>}, parse_term)

parse_equality(self) ==
    match_binary(parse_comparison(self), {<<"EqEq", "EqEq">>}, parse_comparison)

parse_and(self) ==
    match_binary(parse_equality(self), {<<"AmpAmp", "And">>}, parse_equality)

parse_or(self) ==
    match_binary(parse_and(self), {<<"PipePipe", "Or">>}, parse_and)

\* parse_assignment whose value is an or-expression: not right-associative.
parse_assignment_flat(self) ==
    Then(parse_or(self), LAMBDA node :
    IF ~in_bounds(node.self) THEN Panic(node.self)
    ELSE IF peek(node.self) = Punct("Eq")
    THEN Then(parse_or(advance_token(node.self)), LAMBDA value :
         IF node.node[1] = "VarRef"
         THEN Ok(value.self, VarAssign(node.node[2], value.node))
         ELSE Panic(value.self))
    ELSE node)

\* The value is parsed before the target is matched, so a panic inside the
\* value comes first.
parse_assignment(self) ==
    Then(parse_or(self), LAMBDA node :
    IF ~in_bounds(node.self) THEN Panic(node.self)
    ELSE IF peek(node.self) = Punct("Eq")
    THEN Then(parse_expression(advance_token(node.self)), LAMBDA value :
         IF node.node[1] = "VarRef"
         THEN Ok(value.self, VarAssign(node.node[2], value.node))
         ELSE Panic(value.self))
    ELSE node)

parse_expression(self) == parse_assignment(self)

parse_expression_statement(self) ==
    Then(parse_expression(self), LAMBDA expression :
    Then(expect(expression.self, Punct("Semi")), LAMBDA semi :
    Ok(semi.self, expression.node)))

parse_return(self) ==
    Then(expect(self, Kw("Return")), LAMBDA return :
    Then(parse_expression(return.self), LAMBDA value :
    Then(expect(value.self, Punct("Semi")), LAMBDA semi :
    Ok(semi.self, Return(value.node)))))

\* The while loop of parse_block: [tag, self, node |-> body].
RECURSIVE parse_block_body(_, _)
parse_block_body(self, body) ==
    IF ~in_bounds(self) THEN Panic(self)
    ELSE IF peek(self) = Punct("CloseBrace") THEN Ok(self, body)
    ELSE Then(parse_statement(self), LAMBDA statement :
         parse_block_body(statement.self, Append(body, statement.node)))

parse_block(self) ==
    Then(expect(self, Punct("OpenBrace")), LAMBDA open_brace :
    Then(parse_block_body(open_brace.self, <<>>), LAMBDA body :
    Then(expect(body.self, Punct("CloseBrace")), LAMBDA close_brace :
    Ok(close_brace.self, Block(body.node)))))

\* The else branch is parse_statement at the `else` keyword itself: the
\* keyword is not consumed first.
parse_if(self) ==
    Then(expect(self, Kw("If")), LAMBDA if :
    Then(expect(if.self, Punct("OpenParen")), LAMBDA open_paren :
    Then(parse_expression(open_paren.self), LAMBDA condition :
    Then(expect(condition.self, Punct("CloseParen")), LAMBDA close_paren :
    Then(parse_block(close_paren.self), LAMBDA body :
    IF ~in_bounds(body.self) THEN Panic(body.self)
    ELSE IF peek(body.self) = Kw("Else")
    THEN Then(parse_statement(body.self), LAMBDA elif :
         Ok(elif.self, If(condition.node, body.node, Some(elif.node))))
    ELSE Ok(body.self, If(condition.node, body.node, None)))))))

parse_var_def(self) ==
    Then(expect(self, Kw("Var")), LAMBDA var :
    Then(advance_payload(var.self, "Identifier"), LAMBDA name :
    Then(expect(name.self, Punct("Colon")), LAMBDA colon :
    Then(parse_type(colon.self), LAMBDA typee :
    Then(expect(typee.self, Punct("Eq")), LAMBDA eq :
    Then(parse_expression(eq.self), LAMBDA value :
    Then(expect(value.self, Punct("Semi")), LAMBDA semi :
    Ok(semi.self, VarDef(name.node, typee.node, value.node)))))))))

\* parse_for ends in todo!(): it panics once the block is parsed, and
\* before that wherever a token is not the expected one.
parse_for(self) ==
    Then(expect(self, Kw("For")), LAMBDA for :
    Then(expect(for.self, Punct("OpenParen")), LAMBDA open_paren :
    Then(expect(open_paren.self, Punct("CloseParen")), LAMBDA close_paren :
    Then(parse_block(close_paren.self), LAMBDA body :
    Panic(body.self)))))

\* The while loop of parse_extern: [tag, self, node |-> externs].
RECURSIVE parse_extern_protos(_, _)
parse_extern_protos(self, externs) ==
    IF ~in_bounds(self) THEN Panic(self)
    ELSE IF peek(self) = Punct("CloseBrace") THEN Ok(self, externs)
    ELSE Then(parse_proto(self), LAMBDA proto :
         Then(expect(proto.self, Punct("Semi")), LAMBDA semi :
         parse_extern_protos(semi.self, Append(externs, proto.node))))

parse_extern(self) ==
    Then(expect(self, Kw("Extern")), LAMBDA extern :
    Then(expect(extern.self, Punct("OpenBrace")), LAMBDA open_brace :
    Then(parse_extern_protos(open_brace.self, <<>>), LAMBDA externs :
    Then(expect(externs.self, Punct("CloseBrace")), LAMBDA close_brace :
    Ok(close_brace.self, Extern(externs.node))))))

parse_fn_def(self) ==
    Then(parse_proto(self), LAMBDA prototype :
    Then(parse_block(prototype.self), LAMBDA body :
    Ok(body.self, Function(prototype.node, body.node))))

parse_statement(self) ==
    IF ~in_bounds(self) THEN Panic(self)
    ELSE LET token == peek(self) IN
    CASE token = Kw("Return") -> parse_return(self)
      [] token = Kw("If") -> parse_if(self)
      [] token = Kw("Var") -> parse_var_def(self)
      [] token = Kw("For") -> parse_for(self)
      [] token = Kw("Fn") -> parse_fn_def(self)
      [] token = Kw("Extern") -> parse_extern(self)
      [] token = Punct("OpenBrace") -> parse_block(self)
      [] OTHER -> Then(parse_expression_statement(self), LAMBDA expression :
                  Ok(expression.self, Expression(expression.node)))

---------------------------------------------------------------------------
(* The token vectors the model parses, and Parser::run.                    *)

\* Most phrases concatenated into one token vector.
MaxPhrases == 3
\* Most binary operators in one token vector of OperatorChains.
MaxOperators == 2

\* Token kinds of the binary operators, and of the unary ones.
BinaryOperators ==
    {"PipePipe", "AmpAmp", "EqEq", "Lesser", "Greater",
     "Plus", "Minus", "Star", "Slash"}
UnaryOperators == {"Minus", "Bang"}

\* The i-th operand of an operator chain: the number literal i.
Operand(i) == Tok("Number", <<"1", "2", "3", "4", "5", "6">>[i])

\* operand 1, ops[1], operand 2, ... with pre[i] ("" for none) as the
\* unary operator before operand i.
RECURSIVE ChainFrom(_, _, _)
ChainFrom(i, ops, pre) ==
    (IF pre[i] = "" THEN <<>> ELSE <<Punct(pre[i])>>) \o <<Operand(i)>> \o
    (IF i > Len(ops) THEN <<>>
     ELSE <<Punct(ops[i])>> \o ChainFrom(i + 1, ops, pre))

\* Pieces of expression statements.
ExpressionPhrases ==
    { <<Ident("a")>>, <<Tok("Number", "1")>>,
      <<Punct("Eq")>>, <<Punct("Semi")>>, <<Punct("CloseParen")>>,
      <<Tok("Number", "1"), Punct("Semi")>>,
      <<Ident("a"), Punct("Eq")>>, <<Ident("b"), Punct("Eq")>>,
      <<Punct("OpenParen"), Ident("a"), Punct("CloseParen")>>,
      <<Punct("OpenParen"), Tok("Number", "1")>>,
      <<Ident("f"), Punct("OpenParen"), Punct("CloseParen")>>,
      <<Ident("f"), Punct("OpenParen"), Ident("a"), Punct("Comma"),
        Tok("Number", "1"), Punct("CloseParen")>>,
      <<Ident("a"), Punct("Plus"), Ident("b")>>,
      <<Punct("Minus"), Ident("a")>>,
      <<Kw("Return")>> }

\* Pieces of the other statements.
StatementPhrases ==
    { <<Punct("OpenBrace")>>, <<Punct("CloseBrace")>>,
      <<Punct("OpenBrace"), Punct("CloseBrace")>>,
      <<Tok("Number", "1"), Punct("Semi")>>,
      <<Kw("If"), Punct("OpenParen"), Ident("a"), Punct("CloseParen"),
        Punct("OpenBrace"), Punct("CloseBrace")>>,
      <<Kw("Else")>>,
      <<Kw("For"), Punct("OpenParen"), Punct("CloseParen")>>,
      <<Kw("Var"), Ident("a"), Punct("Colon"), Ident("number"),
        Punct("Eq"), Tok("Number", "1"), Punct("Semi")>>,
      <<Kw("Fn"), Ident("f"), Punct("OpenParen"),
        Ident("a"), Punct("Colon"), Ident("number"), Punct("CloseParen"),
        Punct("TArrow"), Ident("number")>>,
      <<Punct("OpenBrace"), Kw("Return"), Ident("a"), Punct("Semi"),
        Punct("CloseBrace")>>,
      <<Kw("Extern"), Punct("OpenBrace")>>,
      <<Kw("Fn"), Ident("g"), Punct("OpenParen"), Punct("CloseParen"),
        Punct("Semi")>> }

\* Parser::new on what Lexer::run hands over, which ends with EOF: an
\* expression statement of up to MaxOperators binary operators, or up to
\* MaxPhrases phrases of one of the two families.
ParserInit ==
    /\ \/ \E k \in 0..MaxOperators :
            \E ops \in [1..k -> BinaryOperators],
               pre \in [1..(k + 1) -> UnaryOperators \cup {""}] :
                parser = Parser_new(ChainFrom(1, ops, pre)
                                      \o <<Punct("Semi"), Punct("EOF")>>)
       \/ \E k \in 0..MaxPhrases :
            \E ps \in [1..k -> ExpressionPhrases] :
                parser = Parser_new(Concat(ps) \o <<Punct("EOF")>>)
       \/ \E k \in 0..MaxPhrases :
            \E ps \in [1..k -> StatementPhrases] :
                parser = Parser_new(Concat(ps) \o <<Punct("EOF")>>)
    /\ ast = <<>>
    /\ pc = "parse"
    /\ code = <<>>
    /\ position = 0
    /\ index = 0
    /\ line = 1
    /\ tokens = <<>>
    /\ errors = <<>>
    /\ result = "none"
    /\ symbol_table = <<>>
    /\ open = <<>>
    /\ popped = {}
    /\ module = <<>>
    /\ builder = 0
    /\ last = <<>>
    /\ calls = 0

\* The condition of run's while loop.
Parser_run_continues ==
    in_bounds(parser) /\ peek(parser) # Punct("EOF")

\* One turn of the loop: parse_statement returns and its node is pushed.
Parser_run_statement ==
    /\ pc = "parse"
    /\ Parser_run_continues
    /\ LET r == parse_statement(parser) IN
        /\ r.tag = "Ok"
        /\ parser' = r.self
        /\ ast' = Append(ast, r.node)
    /\ UNCHANGED <<pc, lexer_vars, codegen_vars>>

\* One turn of the loop: parse_statement panics and run never returns.
Parser_run_panic ==
    /\ pc = "parse"
    /\ Parser_run_continues
    /\ LET r == parse_statement(parser) IN
        /\ r.tag = "Panic"
        /\ parser' = r.self
    /\ pc' = "parse_panic"
    /\ UNCHANGED <<ast, lexer_vars, codegen_vars>>

\* The loop ends and run returns ast.
Parser_run_return ==
    /\ pc = "parse"
    /\ ~Parser_run_continues
    /\ pc' = "parsed"
    /\ UNCHANGED <<parser_vars, lexer_vars, codegen_vars>>

ParserNext == Parser_run_statement \/ Parser_run_panic \/ Parser_run_return

ParserSpec == ParserInit /\ [][ParserNext]_vars

---------------------------------------------------------------------------
(* Properties of the parser.                                               *)

\* The precedence level of a binary operator, 1 the loosest.
C14_Level(op) ==
    CASE op = "PipePipe" -> 1
      [] op = "AmpAmp" -> 2
      [] op = "EqEq" -> 3
      [] op \in {"Lesser", "Greater"} -> 4
      [] op \in {"Plus", "Minus"} -> 5
      [] op \in {"Star", "Slash"} -> 6

\* The BinaryOp an operator token stands for, and the UnaryOp.
C14_BinaryOp(op) ==
    CASE op = "PipePipe" -> "Or"
      [] op = "AmpAmp" -> "And"
      [] op = "Plus" -> "Add"
      [] op = "Minus" -> "Subtract"
      [] op = "Star" -> "Mul"
      [] op = "Slash" -> "Div"
      [] OTHER -> op
C14_UnaryOp(op) == IF op = "Minus" THEN "Neg" ELSE "Not"

\* The literal that operand i of an operator chain parses to.
C14_Num(i) == Literal("Number", Operand(i).value)

\* The token vector of the expression statement `chain ;`.
C14_Statement(ops, pre) ==
    ChainFrom(1, ops, pre) \o <<Punct("Semi"), Punct("EOF")>>

\* C14: an expression statement with one operator of a looser and one of a
\* tighter precedence level parses, in either order, to the tree whose
\* root is the looser operator and in which the tighter operator's
\* expression is an operand of the root; a unary operator binds tighter
\* than every binary one.
C14_LooserIsRoot ==
    pc # "parse" =>
      /\ \A o1, o2 \in BinaryOperators :
            (/\ C14_Level(o1) # C14_Level(o2)
             /\ parser.tokens = C14_Statement(<<o1, o2>>, <<"", "", "">>))
            => /\ pc = "parsed"
               /\ ast = << Expression(
                     IF C14_Level(o1) < C14_Level(o2)
                     THEN BinaryOp(C14_Num(1), C14_BinaryOp(o1),
                                   BinaryOp(C14_Num(2), C14_BinaryOp(o2), C14_Num(3)))
                     ELSE BinaryOp(BinaryOp(C14_Num(1), C14_BinaryOp(o1), C14_Num(2)),
                                   C14_BinaryOp(o2), C14_Num(3))) >>
      /\ \A u \in UnaryOperators, o \in BinaryOperators :
            /\ parser.tokens = C14_Statement(<<o>>, <<u, "">>)
               => /\ pc = "parsed"
                  /\ ast = << Expression(
                        BinaryOp(Unary(C14_UnaryOp(u), C14_Num(1)),
                                 C14_BinaryOp(o), C14_Num(2))) >>
            /\ parser.tokens = C14_Statement(<<o>>, <<"", u>>)
               => /\ pc = "parsed"
                  /\ ast = << Expression(
                        BinaryOp(C14_Num(1), C14_BinaryOp(o),
                                 Unary(C14_UnaryOp(u), C14_Num(2)))) >>

\* `1 + 2 * 3 ;` has been parsed to Add(1, Mul(2, 3)).
C14_Witness ==
    /\ pc = "parsed"
    /\ parser.tokens = C14_Statement(<<"Plus", "Star">>, <<"", "", "">>)
    /\ ast = << Expression(BinaryOp(C14_Num(1), "Add",
                                    BinaryOp(C14_Num(2), "Mul", C14_Num(3)))) >>

\* The shapes an assignment's left operand is drawn from: tokens, and
\* whether the shape is a bare variable reference (then of `a`).
C15_LeftShapes ==
    { << <<Ident("a")>>, TRUE >>,
      << <<Tok("Number", "1")>>, FALSE >>,
      << <<Ident("f"), Punct("OpenParen"), Punct("CloseParen")>>, FALSE >>,
      << <<Ident("a"), Punct("Plus"), Ident("b")>>, FALSE >>,
      << <<Punct("Minus"), Ident("a")>>, FALSE >>,
      << <<Punct("OpenParen"), Ident("a"), Punct("CloseParen")>>, FALSE >> }

\* The values assigned: tokens, and the expression they parse to.
C15_Values ==
    { << <<Tok("Number", "1")>>, Literal("Number", "1") >>,
      << <<Ident("b"), Punct("Eq"), Tok("Number", "1")>>,
         VarAssign("b", Literal("Number", "1")) >> }

\* C15: the expression statement `left = value ;` parses to
\* VarAssign(a, value) when left is the bare variable a, a value that is
\* itself an assignment nesting to the right; with any other left shape
\* the parser panics and run returns no tree.
C15_Assignment ==
    pc # "parse" =>
      \A left \in C15_LeftShapes, value \in C15_Values :
         parser.tokens = left[1] \o <<Punct("Eq")>> \o value[1]
                            \o <<Punct("Semi"), Punct("EOF")>>
         => IF left[2]
            THEN pc = "parsed" /\ ast = << Expression(VarAssign("a", value[2])) >>
            ELSE pc = "parse_panic" /\ ast = <<>>

\* `a = b = 1 ;` has been parsed to VarAssign(a, VarAssign(b, 1)).
C15_Witness ==
    /\ pc = "parsed"
    /\ parser.tokens = <<Ident("a"), Punct("Eq"), Ident("b"), Punct("Eq"),
                         Tok("Number", "1"), Punct("Semi"), Punct("EOF")>>
    /\ ast = << Expression(VarAssign("a", VarAssign("b", Literal("Number", "1")))) >>

\* `if ( a ) { }`
C16_If ==
    <<Kw("If"), Punct("OpenParen"), Ident("a"), Punct("CloseParen"),
      Punct("OpenBrace"), Punct("CloseBrace")>>

\* The statements after `else`: tokens, and the statement they parse to.
C16_ElseBranches ==
    { << <<Punct("OpenBrace"), Punct("CloseBrace")>>, Block(<<>>) >>,
      << <<Tok("Number", "1"), Punct("Semi")>>,
         Expression(Literal("Number", "1")) >> }

\* C16: `if ( a ) { }` parses to an If node without else-branch, and
\* `if ( a ) { } else statement` to an If node whose else-branch is the
\* statement after the keyword.
C16_IfElse ==
    pc # "parse" =>
      /\ parser.tokens = C16_If \o <<Punct("EOF")>>
         => /\ pc = "parsed"
            /\ ast = << If(VarRef("a"), Block(<<>>), None) >>
      /\ \A branch \in C16_ElseBranches :
            parser.tokens = C16_If \o <<Kw("Else")>> \o branch[1] \o <<Punct("EOF")>>
            => /\ pc = "parsed"
               /\ ast = << If(VarRef("a"), Block(<<>>), Some(branch[2])) >>

\* The tokens `for ( ) { }` stand where the next statement starts.
C17_ForAt ==
    /\ parser.index + 5 <= Len(parser.tokens)
    /\ SubSeq(parser.tokens, parser.index + 1, parser.index + 5)
         = <<Kw("For"), Punct("OpenParen"), Punct("CloseParen"),
             Punct("OpenBrace"), Punct("CloseBrace")>>

\* C17: where the next statement is `for ( ) { }`, run pushes one
\* statement for it and goes on with the token after the block.
C17_ForAccepted ==
    [][(pc = "parse" /\ C17_ForAt) =>
          /\ pc' = "parse"
          /\ Len(ast') = Len(ast) + 1
          /\ parser'.index = parser.index + 5]_vars

\* The next statement starts `( 1 t` with a token t that neither closes
\* the parenthesis nor continues the expression 1.
C18_UnclosedParenAt ==
    /\ parser.index + 3 <= Len(parser.tokens)
    /\ parser.tokens[parser.index + 1] = Punct("OpenParen")
    /\ parser.tokens[parser.index + 2] = Tok("Number", "1")
    /\ parser.tokens[parser.index + 3].kind
         \notin BinaryOperators \cup {"Eq", "CloseParen"}

\* C18: where the next statement starts with a parenthesized primary
\* whose `)` is missing, parsing aborts: run pushes no statement for it.
C18_ParenMustClose ==
    [][(pc = "parse" /\ C18_UnclosedParenAt) =>
          /\ pc' = "parse_panic"
          /\ ast' = ast]_vars

\* C28: each binary level folds at most one operator.  Of an expression
\* statement of three operands joined by two operators of one level the
\* parser folds the first two operands, leaves the second operator
\* unconsumed and aborts there: no statement is produced.
C28_FoldsOnce ==
    \A o1, o2 \in BinaryOperators :
        (/\ C14_Level(o1) = C14_Level(o2)
         /\ parser.tokens = C14_Statement(<<o1, o2>>, <<"", "", "">>))
        => /\ ast = <<>>
           /\ pc \in {"parse", "parse_panic"}
           /\ pc = "parse_panic" =>
                 /\ parser.index = 3
                 /\ peek(parser) = Punct(o2)

\* `1 + 2 + 3 ;` has aborted at the second `+`.
C28_Witness ==
    /\ pc = "parse_panic"
    /\ parser.tokens = C14_Statement(<<"Plus", "Plus">>, <<"", "", "">>)
    /\ parser.index = 3
    /\ ast = <<>>

---------------------------------------------------------------------------
(* Part 3: the symbol table of the code generator.  A ScopeId is an index  *)
(* from 0 into `scopes`; a HashMap is a function on the names it binds; a  *)
(* FluidVariableRef is [initialized, kind], a FluidFunctionRef is          *)
(* [args, return_type]: the LLVM values they carry are the functions and   *)
(* blocks of `module`, described with the module below.                    *)

\* Most scopes push_scope creates.
MaxScopes == 3
\* Most names bound, over all scopes.
MaxBindings == 3

\* HashMap::new, HashMap::insert and HashMap::get
HashMap_new == [name \in {} |-> <<>>]
\* HashMap_insert that keeps the binding a name already has.
HashMap_insert_keep(map, key, value) ==
    [name \in DOMAIN map \cup {key} |->
        IF name \in DOMAIN map THEN map[name] ELSE value]
HashMap_insert(map, key, value) ==
    [name \in DOMAIN map \cup {key} |-> IF name = key THEN value ELSE map[name]]
HashMap_get(map, key) == IF key \in DOMAIN map THEN Some(map[key]) ELSE None

Scope_new(parent) ==
    [parent |-> parent, functions |-> HashMap_new, variables |-> HashMap_new]

SymbolTable_new == [scopes |-> <<Scope_new(None)>>, current |-> 0]

push_scope(self) ==
    [scopes |-> Append(self.scopes, Scope_new(Some(self.current))),
     current |-> self.current + 1]

\* Only called where current > 0: every pop_scope of the code generator
\* follows a push_scope of the same handler.
pop_scope(self) == [self EXCEPT !.current = @ - 1]

current_scope(self) == self.scopes[self.current + 1]

\* [tag |-> "Ok", scope] or, where parent.unwrap() panics, [tag |-> "Panic"].
current_scope_parent(self) ==
    IF current_scope(self).parent = None
    THEN [tag |-> "Panic"]
    ELSE [tag |-> "Ok", scope |-> self.scopes[current_scope(self).parent[2] + 1]]

insert_function(self, function_name, function_ref) ==
    [self EXCEPT !.scopes[self.current + 1].functions =
                    HashMap_insert(@, function_name, function_ref)]

insert_variable(self, variable_name, variable_ref) ==
    [self EXCEPT !.scopes[self.current + 1].variables =
                    HashMap_insert(@, variable_name, variable_ref)]

\* get_variable that falls back to the parent of the current scope.
get_variable_parent(self, variable_name) ==
    IF variable_name \in DOMAIN current_scope(self).variables
       \/ current_scope(self).parent = None
    THEN HashMap_get(current_scope(self).variables, variable_name)
    ELSE HashMap_get(self.scopes[current_scope(self).parent[2] + 1].variables,
                     variable_name)

get_variable(self, variable_name) ==
    HashMap_get(current_scope(self).variables, variable_name)

get_function(self, function_name) ==
    HashMap_get(current_scope(self).functions, function_name)

FluidVariableRef_new(initialized, kind) ==
    [initialized |-> initialized, kind |-> kind]

FluidFunctionRef_new(args, return_type) ==
    [args |-> args, return_type |-> return_type]

mangle_function_name(name, params) == name

\* The number of names the table binds.
RECURSIVE Bindings(_)
Bindings(scopes) ==
    IF scopes = <<>> THEN 0
    ELSE Cardinality(DOMAIN Head(scopes).functions)
         + Cardinality(DOMAIN Head(scopes).variables)
         + Bindings(Tail(scopes))

---------------------------------------------------------------------------
(* The module and the builder.  A function value is the index of the       *)
(* function in the module, and the builder's position is the function      *)
(* value whose entry block it stands at the end of, 0 before                *)
(* LLVMPositionBuilderAtEnd was called.  Of a basic block the model keeps   *)
(* the return instructions built into it, in order, each as the Type of    *)
(* the value returned ("Void" for LLVMBuildRetVoid), and whether an        *)
(* instruction that is no terminator was built after the last of them:     *)
(* what the verifier's rules on terminators read.                          *)

\* Most handler calls of one lowering.
MaxCalls == 4

BasicBlock_new == [terminators |-> <<>>, tail |-> FALSE]

\* LLVMAddFunction: a declaration, without blocks.
LLVMAddFunction(mod, name, return_type) ==
    Append(mod, [name |-> name, return_type |-> return_type, blocks |-> <<>>])

LLVMAppendBasicBlock(mod, function_value) ==
    [mod EXCEPT ![function_value].blocks = Append(@, BasicBlock_new)]

\* LLVMBuildAlloca, LLVMBuildStore, LLVMBuildLoad, LLVMBuildCall: an
\* instruction built while the builder has no position goes into no block.
LLVMBuild(mod, at) ==
    IF at = 0 THEN mod
    ELSE [mod EXCEPT ![at].blocks[1].tail = (mod[at].blocks[1].terminators # <<>>)]

LLVMBuildRet(mod, at, kind) ==
    IF at = 0 THEN mod
    ELSE [mod EXCEPT ![at].blocks[1] =
                [terminators |-> Append(@.terminators, kind), tail |-> FALSE]]

LLVMBuildRetVoid(mod, at) == LLVMBuildRet(mod, at, "Void")

\* LLVMVerifyFunction(.., LLVMReturnStatusAction) == 1: the function is
\* broken.  A block must end with its only terminator, and a return must
\* return a value of the function's return type.
LLVMVerifyFunction(function) ==
    \E i \in 1..Len(function.blocks) :
        LET block == function.blocks[i] IN
        ~(/\ Len(block.terminators) = 1
          /\ ~block.tail
          /\ block.terminators[1] = function.return_type)

LLVMDeleteFunction(mod, function_value) ==
    SubSeq(mod, 1, function_value - 1) \o SubSeq(mod, function_value + 1, Len(mod))

\* gen_prototype: the function value is the new function's index.
gen_prototype(mod, name, return_type) == LLVMAddFunction(mod, name, return_type)

---------------------------------------------------------------------------
(* The handlers of the code generator.                                     *)

\* The names and types of the programs lowered.
VariableNames == {"a", "b"}
FunctionNames == {"f", "g"}
VariableTypes == {"Number", "Float"}
ReturnTypes == {"Void", "Number"}
ArgLists == { <<>>, <<Arg("a", "Number")>> }

\* The loop of gen_function_def over the arguments.
RECURSIVE insert_args(_, _)
insert_args(self, args) ==
    IF args = <<>> THEN self
    ELSE insert_args(
            insert_variable(self, Head(args)[2],
                            FluidVariableRef_new(TRUE, Head(args)[3])),
            Tail(args))

\* The types of an argument list.
arg_types(args) == [i \in 1..Len(args) |-> args[i][3]]

CodeGenInit ==
    /\ symbol_table = SymbolTable_new
    /\ open = <<>>
    /\ popped = {}
    /\ module = <<>>
    /\ builder = 0
    /\ last = <<"new">>
    /\ calls = 0
    /\ pc = "gen"
    /\ code = <<>>
    /\ position = 0
    /\ index = 0
    /\ line = 1
    /\ tokens = <<>>
    /\ errors = <<>>
    /\ result = "none"
    /\ parser = <<>>
    /\ ast = <<>>

\* Every handler counts its call.
Called == calls < MaxCalls /\ calls' = calls + 1

\* gen_function_def up to the call of gen_function_body: gen_prototype,
\* push_scope, the entry block with the builder at its end, the arguments
\* (an alloca and a store each), then the function itself, all in what is
\* now the current scope.
gen_function_def_enter ==
    /\ pc = "gen"
    /\ Called
    /\ Len(symbol_table.scopes) <= MaxScopes
    /\ \E name \in FunctionNames, args \in ArgLists, return_type \in ReturnTypes :
        LET function_name == mangle_function_name(name, arg_types(args))
            function_value == Len(module) + 1
            entry == LLVMAppendBasicBlock(
                         gen_prototype(module, function_name, return_type),
                         function_value) IN
        /\ Bindings(symbol_table.scopes) + Len(args) + 1 <= MaxBindings
        /\ symbol_table' =
              insert_function(
                  insert_args(push_scope(symbol_table), args),
                  function_name,
                  FluidFunctionRef_new(arg_types(args), return_type))
        /\ module' = IF args = <<>> THEN entry
                     ELSE LLVMBuild(entry, function_value)
        /\ builder' = function_value
        /\ open' = Append(open, <<"function", function_value>>)
        /\ last' = <<"gen_function_def_enter", function_name>>
    /\ UNCHANGED <<pc, popped, lexer_vars, parser_vars>>

\* The implicit return of gen_function_def.
implicit_return_never(mod, at, return_type) == mod

implicit_return(mod, at, return_type) ==
    IF return_type = "Void" THEN LLVMBuildRetVoid(mod, at) ELSE mod

\* gen_function_def after gen_function_body has returned: pop_scope, the
\* implicit return where the builder stands, then the verifier; a broken
\* function is deleted and the thread panics.  `last` keeps the function
\* as the verifier saw it.
gen_function_def_exit ==
    /\ pc = "gen"
    /\ Called
    /\ open # <<>>
    /\ open[Len(open)][1] = "function"
    /\ LET function_value == open[Len(open)][2]
           built == implicit_return(module, builder,
                                    module[function_value].return_type) IN
        /\ module' = IF LLVMVerifyFunction(built[function_value])
                     THEN LLVMDeleteFunction(built, function_value)
                     ELSE built
        /\ pc' = IF LLVMVerifyFunction(built[function_value])
                 THEN "gen_panic" ELSE "gen"
        /\ last' = <<"gen_function_def_exit", built[function_value]>>
    /\ symbol_table' = pop_scope(symbol_table)
    /\ popped' = popped \cup {symbol_table.current}
    /\ open' = SubSeq(open, 1, Len(open) - 1)
    /\ UNCHANGED <<builder, lexer_vars, parser_vars>>

\* gen_block before its statements: push_scope.
gen_block_enter ==
    /\ pc = "gen"
    /\ Called
    /\ Len(symbol_table.scopes) <= MaxScopes
    /\ symbol_table' = push_scope(symbol_table)
    /\ open' = Append(open, <<"block">>)
    /\ last' = <<"gen_block_enter">>
    /\ UNCHANGED <<pc, popped, module, builder, lexer_vars, parser_vars>>

\* gen_block after its statements: pop_scope.
gen_block_exit ==
    /\ pc = "gen"
    /\ Called
    /\ open # <<>>
    /\ open[Len(open)][1] = "block"
    /\ symbol_table' = pop_scope(symbol_table)
    /\ popped' = popped \cup {symbol_table.current}
    /\ open' = SubSeq(open, 1, Len(open) - 1)
    /\ last' = <<"gen_block_exit">>
    /\ UNCHANGED <<pc, module, builder, lexer_vars, parser_vars>>

\* gen_var_def of a variable whose value is a literal: an alloca, a store,
\* insert_variable.  `last` keeps what HashMap::insert returned, the
\* binding it replaced.
gen_var_def ==
    /\ pc = "gen"
    /\ Called
    /\ \E name \in VariableNames, kind \in VariableTypes :
        /\ Cardinality(DOMAIN current_scope(symbol_table).variables \cup {name})
             - Cardinality(DOMAIN current_scope(symbol_table).variables)
             + Bindings(symbol_table.scopes) <= MaxBindings
        /\ symbol_table' =
              insert_variable(symbol_table, name, FluidVariableRef_new(TRUE, kind))
        /\ last' = <<"gen_var_def", name, kind, get_variable(symbol_table, name)>>
    /\ module' = LLVMBuild(module, builder)
    /\ UNCHANGED <<pc, open, popped, builder, lexer_vars, parser_vars>>

\* gen_var_ref: get_variable(..).unwrap() panics on a name the current
\* scope does not bind; otherwise a load is built.
gen_var_ref ==
    /\ pc = "gen"
    /\ Called
    /\ \E var_name \in VariableNames :
        /\ pc' = IF get_variable(symbol_table, var_name) = None
                 THEN "gen_panic" ELSE "gen"
        /\ module' = IF get_variable(symbol_table, var_name) = None
                     THEN module ELSE LLVMBuild(module, builder)
        /\ last' = <<"gen_var_ref", var_name>>
    /\ UNCHANGED <<symbol_table, open, popped, builder, lexer_vars, parser_vars>>

\* gen_function_call that looks the name up in every enclosing scope.
RECURSIVE get_function_walk(_, _, _)
get_function_walk(self, scope_id, func_name) ==
    IF HashMap_get(self.scopes[scope_id + 1].functions, func_name) # None
    THEN TRUE
    ELSE IF self.scopes[scope_id + 1].parent = None THEN FALSE
    ELSE get_function_walk(self, self.scopes[scope_id + 1].parent[2], func_name)
gen_function_call_walk ==
    /\ pc = "gen"
    /\ Called
    /\ \E name \in FunctionNames :
        LET func_name == mangle_function_name(name, <<>>)
            found == get_function_walk(symbol_table, symbol_table.current,
                                       func_name) IN
        /\ pc' = IF found THEN "gen" ELSE "gen_panic"
        /\ module' = IF found THEN LLVMBuild(module, builder) ELSE module
        /\ last' = <<"gen_function_call", func_name>>
    /\ UNCHANGED <<symbol_table, open, popped, builder, lexer_vars, parser_vars>>

\* gen_function_call with literal arguments: the current scope, then its
\* parent; each unwrap panics where there is nothing to unwrap; otherwise
\* a call is built.
gen_function_call ==
    /\ pc = "gen"
    /\ Called
    /\ \E name \in FunctionNames :
        LET func_name == mangle_function_name(name, <<>>)
            parent == current_scope_parent(symbol_table)
            found == IF get_function(symbol_table, func_name) # None THEN TRUE
                     ELSE IF parent.tag = "Panic" THEN FALSE
                     ELSE HashMap_get(parent.scope.functions, func_name) # None IN
        /\ pc' = IF found THEN "gen" ELSE "gen_panic"
        /\ module' = IF found THEN LLVMBuild(module, builder) ELSE module
        /\ last' = <<"gen_function_call", func_name>>
    /\ UNCHANGED <<symbol_table, open, popped, builder, lexer_vars, parser_vars>>

\* gen_return_statement of a number literal.
gen_return_statement ==
    /\ pc = "gen"
    /\ Called
    /\ module' = LLVMBuildRet(module, builder, "Number")
    /\ last' = <<"gen_return_statement">>
    /\ UNCHANGED <<pc, symbol_table, open, popped, builder, lexer_vars, parser_vars>>

\* gen_extern_def of one prototype: gen_prototype, and nothing else.
gen_extern_def ==
    /\ pc = "gen"
    /\ Called
    /\ \E name \in FunctionNames :
        /\ module' = gen_prototype(module, name, "Number")
        /\ last' = <<"gen_extern_def", name>>
    /\ UNCHANGED <<pc, symbol_table, open, popped, builder, lexer_vars, parser_vars>>

CodeGenNext ==
    \/ gen_function_def_enter
    \/ gen_function_def_exit
    \/ gen_block_enter
    \/ gen_block_exit
    \/ gen_var_def
    \/ gen_var_ref
    \/ gen_function_call
    \/ gen_return_statement
    \/ gen_extern_def

CodeGenSpec == CodeGenInit /\ [][CodeGenNext]_vars

---------------------------------------------------------------------------
(* Properties of the symbol table.                                         *)

\* The step called push_scope, or pop_scope.
C19_Pushed == Len(symbol_table'.scopes) = Len(symbol_table.scopes) + 1
C19_Popped == Len(open') < Len(open)

\* C19: a push_scope makes the scope it creates the current one, with the
\* scope that was current as its parent (and empty, when gen_block pushed
\* it); a pop_scope makes the parent of the scope that was current the
\* current one.
C19_Lifo ==
    [][/\ C19_Pushed =>
            /\ symbol_table'.current = Len(symbol_table'.scopes) - 1
            /\ current_scope(symbol_table').parent = Some(symbol_table.current)
            /\ open'[Len(open')][1] = "block" =>
                  current_scope(symbol_table') = Scope_new(Some(symbol_table.current))
       /\ C19_Popped =>
            Some(symbol_table'.current) = current_scope(symbol_table).parent]_vars

\* C20: the scopes that lookups read, the current scope and (for a
\* function) its parent, are never scopes that pop_scope has left, so no
\* name bound in a popped scope is resolved.
C20_PoppedNeverRevisited ==
    /\ symbol_table.current \notin popped
    /\ \A p \in popped : current_scope(symbol_table).parent # Some(p)
    /\ \A name \in VariableNames :
          get_variable(symbol_table, name) # None
          => symbol_table.current \notin popped

\* C21: within one scope insertion is last-write-wins.  A gen_var_def of
\* name n with descriptor d2 leaves n bound to d2 in the current scope,
\* whatever n was bound to before, and leaves every other variable and
\* every function of that scope as it was.
C21_LastWriteWins ==
    [][last'[1] = "gen_var_def" =>
          /\ get_variable(symbol_table', last'[2])
               = Some(FluidVariableRef_new(TRUE, last'[3]))
          /\ symbol_table'.current = symbol_table.current
          /\ \A other \in VariableNames \ {last'[2]} :
                get_variable(symbol_table', other) = get_variable(symbol_table, other)
          /\ \A name \in FunctionNames :
                get_function(symbol_table', name) = get_function(symbol_table, name)]_vars

\* `a` was bound to a descriptor of another type, and `b` is bound beside
\* it, when gen_var_def bound `a` again.
C21_Witness ==
    /\ last[1] = "gen_var_def"
    /\ last[2] = "a"
    /\ last[4] # None
    /\ last[4][2].kind # last[3]
    /\ get_variable(symbol_table, "a") = Some(FluidVariableRef_new(TRUE, last[3]))
    /\ get_variable(symbol_table, "b") # None

\* The scope k levels up from the current one, as an Option of its id.
RECURSIVE C22_Enclosing(_, _)
C22_Enclosing(scope_id, k) ==
    IF k = 0 THEN Some(scope_id)
    ELSE IF symbol_table.scopes[scope_id + 1].parent = None THEN None
    ELSE C22_Enclosing(symbol_table.scopes[scope_id + 1].parent[2], k - 1)

\* The scope k levels up from the current one binds the variable.
C22_VariableBoundAt(name, k) ==
    /\ C22_Enclosing(symbol_table.current, k) # None
    /\ name \in DOMAIN symbol_table.scopes[
                   C22_Enclosing(symbol_table.current, k)[2] + 1].variables

\* C22: a variable reference resolves in the current scope only: it is
\* lowered when the current scope binds the name and is a fatal lookup
\* when it does not, also when an enclosing scope binds the name.
C22_CurrentScopeOnly ==
    last[1] = "gen_var_ref" =>
        /\ C22_VariableBoundAt(last[2], 0) => pc = "gen"
        /\ ~C22_VariableBoundAt(last[2], 0) => pc = "gen_panic"

\* The parameter `a` of a function was referenced from a block nested in
\* the function's body, and the lookup was fatal.
C22_Witness ==
    /\ last = <<"gen_var_ref", "a">>
    /\ pc = "gen_panic"
    /\ Len(open) = 2
    /\ open[1][1] = "function"
    /\ open[2][1] = "block"
    /\ ~C22_VariableBoundAt("a", 0)
    /\ C22_VariableBoundAt("a", 1)

\* The scope k levels up from the current one binds the function.
C23_FunctionBoundAt(name, k) ==
    /\ C22_Enclosing(symbol_table.current, k) # None
    /\ name \in DOMAIN symbol_table.scopes[
                   C22_Enclosing(symbol_table.current, k)[2] + 1].functions

\* C23: a call resolves its function in the current scope or in the scope
\* directly enclosing it, and nowhere else: the call is lowered exactly
\* when one of the two binds the name, and is a fatal lookup otherwise,
\* also when a scope two or more levels up binds it.
C23_OneLevelUp ==
    last[1] = "gen_function_call" =>
        (pc = "gen" <=> (\/ C23_FunctionBoundAt(last[2], 0)
                         \/ C23_FunctionBoundAt(last[2], 1)))

\* A call of `f`, bound two levels up and no nearer, was a fatal lookup.
C23_Witness ==
    /\ last = <<"gen_function_call", "f">>
    /\ pc = "gen_panic"
    /\ C23_FunctionBoundAt("f", 2)
    /\ ~C23_FunctionBoundAt("f", 1)
    /\ ~C23_FunctionBoundAt("f", 0)

\* C24: gen_function_def binds the function in the scope enclosing the
\* definition, the one current before the body's scope is pushed, before
\* the body is lowered; so once the definition has completed a call of
\* the function lowered next, in that enclosing scope, resolves.
C24_BoundInEnclosingScope ==
    [][/\ last'[1] = "gen_function_def_enter" =>
            last'[2] \in DOMAIN symbol_table'.scopes[symbol_table.current + 1].functions
       /\ (/\ last[1] = "gen_function_def_exit"
           /\ pc = "gen"
           /\ last' = <<"gen_function_call", last[2].name>>)
          => pc' = "gen"]_vars

\* C25: the implicit return is built, where the builder stands, exactly
\* for a function whose return type is Void.  A function of another return type whose entry block
\* holds no return when its body has been lowered is verified as it is,
\* found broken, deleted from the module, and the thread panics; a Void
\* function whose body built no return, verified while the builder stands
\* in its entry block, gets the implicit return and passes.
C25_ImplicitReturn ==
    [][last'[1] = "gen_function_def_exit" =>
          LET function_value == open[Len(open)][2]
              before == module[function_value]
              verified == last'[2] IN
          /\ before.return_type # "Void" =>
                /\ verified = before
                /\ module' \in {module, LLVMDeleteFunction(module, function_value)}
          /\ before.return_type = "Void" =>
                module' \in {LLVMBuildRetVoid(module, builder),
                             LLVMDeleteFunction(LLVMBuildRetVoid(module, builder),
                                                function_value)}
          /\ (before.return_type # "Void" /\ before.blocks[1].terminators = <<>>)
             => /\ pc' = "gen_panic"
                /\ module' = LLVMDeleteFunction(module, function_value)
          /\ (/\ before.return_type = "Void"
              /\ builder = function_value
              /\ before.blocks[1].terminators = <<>>)
             => /\ pc' = "gen"
                /\ verified.blocks[1].terminators = <<"Void">>
                /\ module'[function_value] = verified]_vars

\* A function returning Number whose body built no return has failed
\* verification: it is gone from the module and the thread has panicked.
C25_Witness ==
    /\ last[1] = "gen_function_def_exit"
    /\ last[2].return_type = "Number"
    /\ last[2].blocks[1].terminators = <<>>
    /\ pc = "gen_panic"
    /\ module = <<>>

\* C30: a function declared by gen_extern_def is callable: a call of its
\* name lowered next, in the same scope, resolves.
C30_ExternCallable ==
    [][(/\ last[1] = "gen_extern_def"
        /\ last' = <<"gen_function_call", last[2]>>)
       => pc' = "gen"]_vars

=============================================================================
